---------------------------- MODULE Spec2Model ----------------------------
(***************************************************************************)
(* Model of tag2dir-rs: the metadata extraction engine                     *)
(* (src-tauri/src/metadata.rs), the per-file driver (scanner.rs) and the   *)
(* scan / cancel commands (commands.rs).                                   *)
(*                                                                         *)
(* Bytes are integers 0..255, buffers are sequences of bytes addressed     *)
(* with the zero-based indexes of the source.  Strings are sequences of    *)
(* Unicode code points; the byte-wise order of UTF-8 strings is the        *)
(* lexicographic order of their code points.  usize is 64 bits wide on the *)
(* supported desktop targets, so no sum of a position and a 32-bit size    *)
(* wraps.                                                                  *)
(***************************************************************************)
EXTENDS Integers, Sequences, FiniteSets, TLC

VARIABLES
    \* ---- parse_iptc_from_photoshop / parse_iptc_records ----
    data,       \* the IRB stream handed to parse_iptc_from_photoshop
    expect,     \* [wf, kws]: for a well-formed stream, the keywords it holds
    pc,         \* "outer" | "inner" | "done" | "panic"
    pos,        \* scan position of the outer loop
    blk,        \* [bs, be]: the payload range of the block being decoded
    ipos,       \* scan position of the inner loop, relative to the payload
    keywords,   \* the keywords pushed so far
    reads,      \* the indexes read by the last loop iteration
    buflen,     \* the length of the buffer those indexes address
    last,       \* what the last loop iteration did
    cut,        \* the keywords held when a size field first pointed past the end
    \* ---- extract_xmp_from_bytes ----
    text,       \* the lossy UTF-8 view of the file, as markers and other text
    xres,       \* [tag, xml]: "idle" | "pending" | "None" | "Some" | "panic"
    \* ---- extract_person_tags on one file ----
    disk,       \* the content of the file as it is on disk now
    rewrites,   \* how often another process has rewritten the file
    epc,        \* "exif" | "xmp" | "iptc" | "done" | "panicked" | "idle"
    all_keywords, \* the local all_keywords
    persons,    \* the local persons, as the XMP rules filled it
    seen,       \* the content each of the three decoders read
    result,     \* the (persons, keywords) returned
    \* ---- scan_images and cancel_scan ----
    scanning,   \* AppState.scanning
    cancel_scan, \* AppState.cancel_scan
    spc,        \* where the scan_images call in flight stands; "idle": none in flight
    calls,      \* how many calls of scan_images have been made
    ret,        \* what the last call of scan_images that returned gave
    files,      \* the files scan_image_files listed, by their content
    fstate,     \* per file: "todo" | "skipped" | "started" | "processed" |
                \*           "counted" | "emitted" | "panicked" | "abandoned"
    finfo,      \* per file: the ImageInfo process_single_image gave
    fcount,     \* per file: its current_count
    worker_threads, \* the number of threads of the pool
    wfile,      \* per worker: the file its closure works on (0: none)
    wseen,      \* per worker: whether it has loaded the cancel flag as set
    panicked,   \* whether a closure of the batch has panicked
    scanned_count, \* the atomic scanned_count
    person_buckets, \* the DashSet person_buckets
    events,     \* the scan-progress events emitted by the scan, in order
    \* ---- move_images and undo_move ----
    last_operation, \* AppState.last_operation: 0 for None, else the id of the log
    mpc,        \* per move_images call: "idle" | "moved" | "failed" | "done"
    upc,        \* per undo_move call: "idle" | "taken" | "done"
    ulog,       \* per undo_move call: the log it took (0: None)
    uret,       \* per undo_move call: "none" | "Ok" | "ErrNone" | "ErrUndo"
    undone      \* per log: how often file_ops::undo_move ran on it

iptcVars == <<data, expect, pc, pos, blk, ipos, keywords, reads, buflen, last, cut>>
xmpVars == <<text, xres>>
extractVars == <<disk, rewrites, epc, all_keywords, persons, seen, result>>
scanVars == <<scanning, cancel_scan, spc, calls, ret, files, fstate, finfo, fcount,
              worker_threads, wfile, wseen, panicked, scanned_count, person_buckets,
              events>>
undoVars == <<last_operation, mpc, upc, ulog, uret, undone>>
vars == <<iptcVars, xmpVars, extractVars, scanVars, undoVars>>

(***************************************************************************)
(* Generic helpers                                                         *)
(***************************************************************************)
RECURSIVE SeqsUpTo(_, _)
\* All sequences over S of length at most n.
SeqsUpTo(S, n) ==
    IF n = 0 THEN {<<>>}
    ELSE LET shorter == SeqsUpTo(S, n - 1)
         IN  shorter \cup {Append(s, x) : s \in {t \in shorter : Len(t) = n - 1}, x \in S}

RECURSIVE Concat(_)
Concat(ss) == IF ss = <<>> THEN <<>> ELSE Head(ss) \o Concat(Tail(ss))

\* s.iter().map(f).collect()
Map(f(_), s) == [i \in 1..Len(s) |-> f(s[i])]

\* s.iter().flat_map(f).collect(), and a loop that pushes f(x) for each x of s.
FlatMap(f(_), s) == Concat(Map(f, s))

\* data[i] of the source; 0 stands for a read the step is about to panic on.
At(d, i) == IF i >= 0 /\ i < Len(d) THEN d[i + 1] ELSE 0

\* data[a..b] of the source (requires a <= b <= len, which callers record).
Slice(d, a, b) == IF a >= 0 /\ a <= b /\ b <= Len(d) THEN SubSeq(d, a + 1, b) ELSE <<>>

(***************************************************************************)
(* Text decoding: String::from_utf8, the Latin-1 fallback, str::trim       *)
(***************************************************************************)
IsCont(b) == b >= 128 /\ b <= 191

\* The width of the sequence the lead byte b0 announces; 0 when b0 is no
\* lead byte.
Utf8Width(b0) ==
    IF b0 < 128 THEN 1
    ELSE IF b0 >= 194 /\ b0 <= 223 THEN 2
    ELSE IF b0 >= 224 /\ b0 <= 239 THEN 3
    ELSE IF b0 >= 240 /\ b0 <= 244 THEN 4
    ELSE 0

\* Whether the n bytes b0.. form one well-formed sequence, with room bytes
\* left in the buffer.
Utf8WellFormed(n, b0, b1, b2, b3, room) ==
    /\ n > 0
    /\ n <= room
    /\ n >= 2 => IsCont(b1)
    /\ n >= 3 => IsCont(b2)
    /\ n >= 4 => IsCont(b3)
    /\ b0 = 224 => b1 >= 160
    /\ b0 = 237 => b1 <= 159
    /\ b0 = 240 => b1 >= 144
    /\ b0 = 244 => b1 <= 143

\* The code point a well-formed sequence of n bytes encodes.
Utf8CodePoint(n, b0, b1, b2, b3) ==
    CASE n = 1 -> b0
      [] n = 2 -> (b0 - 192) * 64 + (b1 - 128)
      [] n = 3 -> (b0 - 224) * 4096 + (b1 - 128) * 64 + (b2 - 128)
      [] OTHER -> (b0 - 240) * 262144 + (b1 - 128) * 4096 + (b2 - 128) * 64 + (b3 - 128)

\* The head is kept only when the rest decoded.
Utf8Cons(cp, rest) == IF rest = <<-1>> THEN <<-1>> ELSE <<cp>> \o rest

RECURSIVE Utf8From(_, _)
Utf8Sequence(b, i, n, b0, b1, b2, b3) ==
    IF ~Utf8WellFormed(n, b0, b1, b2, b3, Len(b) - i) THEN <<-1>>
    ELSE Utf8Cons(Utf8CodePoint(n, b0, b1, b2, b3), Utf8From(b, i + n))

Utf8At(b, i, b0, b1, b2, b3) == Utf8Sequence(b, i, Utf8Width(b0), b0, b1, b2, b3)

\* String::from_utf8 from byte i on: the code points, or <<-1>> on the first
\* ill-formed sequence.
Utf8From(b, i) ==
    IF i >= Len(b) THEN <<>>
    ELSE Utf8At(b, i, At(b, i), At(b, i + 1), At(b, i + 2), At(b, i + 3))

\* data.iter().map(|&b| b as char).collect(): one byte, one code point.
Latin1(b) == b

\* The Unicode White_Space code points str::trim removes.
IsWhitespace(c) ==
    \/ c >= 9 /\ c <= 13
    \/ c \in {32, 133, 160, 5760, 8232, 8233, 8239, 8287, 12288}
    \/ c >= 8192 /\ c <= 8202

RECURSIVE TrimStart(_)
TrimStart(s) == IF s # <<>> /\ IsWhitespace(Head(s)) THEN TrimStart(Tail(s)) ELSE s

RECURSIVE TrimEnd(_)
TrimEnd(s) ==
    IF s # <<>> /\ IsWhitespace(s[Len(s)]) THEN TrimEnd(SubSeq(s, 1, Len(s) - 1)) ELSE s

Trim(s) == TrimEnd(TrimStart(s))

\* match String::from_utf8(..) { Ok(s) => s, Err(_) => <the Latin-1 reading> }
Utf8OrLatin1(u, payload) == IF u = <<-1>> THEN Latin1(payload) ELSE u

\* The keyword a 2:25 payload yields: UTF-8, else Latin-1; trimmed.
DecodeKeyword(payload) == Trim(Utf8OrLatin1(Utf8From(payload, 0), payload))

(***************************************************************************)
(* IptcBlockDecoder: one iteration of each loop as an operator             *)
(***************************************************************************)
Sig8BIM == <<56, 66, 73, 77>>

IPTC_RESOURCE_ID == 1028

IPTC_MARKER == 28

KEYWORDS_RECORD == 2

KEYWORDS_DATASET == 25

OUTER_MIN_HEADER == 12

INNER_MIN_HEADER == 5

\* while pos + 12 <= data.len()
OuterGuard(p, len) == p + OUTER_MIN_HEADER <= len

\* A mutant: the padding byte of the resource name is forgotten.
PaddedNameLenUnpadded(name_len) == name_len + 1

\* The resource name with its length byte, padded to an even total.
PaddedNameLen(name_len) ==
    IF (name_len + 1) % 2 # 0 THEN name_len + 2 ELSE name_len + 1

\* A mutant: the size field is read without the check.
SizeFieldFitsUnchecked(size_offset, len) == TRUE

\* if size_offset + 4 > data.len() { break; }
SizeFieldFits(size_offset, len) == ~(size_offset + 4 > len)

\* if block_end > data.len() { break; } with block_end = block_start + block_size;
\* written as a difference so that the model's integers never exceed 32 bits.
BlockFits(block_start, block_size, len) == ~(block_size > len - block_start)

\* pos = block_end; if pos % 2 != 0 { pos += 1; }
AlignEven(p) == IF p % 2 # 0 THEN p + 1 ELSE p

\* What one iteration of the loop of parse_iptc_from_photoshop does (kind),
\* the indexes it reads, the next position and, for a block that fits, its
\* payload range [bs, be).
OuterResult(kind, indexes, p, bs, be) ==
    [kind |-> kind, reads |-> indexes, pos |-> p, bs |-> bs, be |-> be]

\* The indexes of the signature, the resource id and the name length.
OuterHeader(p) == p .. (p + 6)

\* The indexes of the size field.
SizeField(size_offset) == size_offset .. (size_offset + 3)

\* u32::from_be_bytes of the size field.
BlockSize(d, size_offset) ==
    At(d, size_offset) * 16777216 + At(d, size_offset + 1) * 65536
    + At(d, size_offset + 2) * 256 + At(d, size_offset + 3)

\* Lines 311-326: a block whose size field was read.
OuterBlock(len, p, resource_id, size_offset, block_size, block_start, block_end) ==
    IF ~BlockFits(block_start, block_size, len)
    THEN OuterResult("brk_size", OuterHeader(p) \cup SizeField(size_offset), p, 0, 0)
    ELSE OuterResult(IF resource_id = IPTC_RESOURCE_ID THEN "iptc" ELSE "other",
                     \* the slice data[block_start..block_end] is taken for an IPTC block
                     OuterHeader(p) \cup SizeField(size_offset) \cup
                         (IF resource_id = IPTC_RESOURCE_ID /\ block_size > 0
                          THEN {block_end - 1} ELSE {}),
                     AlignEven(block_end), block_start, block_end)

OuterSized(d, p, resource_id, size_offset, block_size) ==
    OuterBlock(Len(d), p, resource_id, size_offset, block_size,
               size_offset + 4, size_offset + 4 + block_size)

\* Lines 296-309: a block whose signature matched.
OuterNamed(d, p, resource_id, size_offset) ==
    IF ~SizeFieldFits(size_offset, Len(d))
    THEN OuterResult("brk_name", OuterHeader(p), p, 0, 0)
    ELSE OuterSized(d, p, resource_id, size_offset, BlockSize(d, size_offset))

\* One iteration of the loop of parse_iptc_from_photoshop at position p.
OuterIter(d, p) ==
    IF ~OuterGuard(p, Len(d)) THEN OuterResult("exit", {}, p, 0, 0)
    ELSE IF <<At(d, p), At(d, p + 1), At(d, p + 2), At(d, p + 3)>> # Sig8BIM
    THEN OuterResult("skip", p .. (p + 3), p + 1, 0, 0)
    ELSE OuterNamed(d, p, At(d, p + 4) * 256 + At(d, p + 5),
                    p + 6 + PaddedNameLen(At(d, p + 6)))

\* while pos + 5 <= data.len()
InnerGuard(p, len) == p + INNER_MIN_HEADER <= len

\* if pos + field_len > data.len() { break; }
FieldFits(p, field_len, len) == ~(p + field_len > len)

\* if record_number == 2 && dataset_number == 25
IsKeywords(record_number, dataset_number) ==
    record_number = KEYWORDS_RECORD /\ dataset_number = KEYWORDS_DATASET

\* if !keyword.is_empty() { keywords.push(keyword); }
PushNonEmpty(kws, keyword) == IF keyword # <<>> THEN Append(kws, keyword) ELSE kws

\* The push of lines 351-366: the trimmed keyword, when it is not empty.
PushKeyword(kws, payload) == PushNonEmpty(kws, DecodeKeyword(payload))

\* A mutant: a dataset cut short still yields the bytes that are there.
TruncatedDatasetPartial(s, p, kws) == PushKeyword(kws, Slice(s, p + 5, Len(s)))

\* The keywords after the break of lines 345-347: left as they are.
TruncatedDataset(s, p, kws) == kws

\* What one iteration of the loop of parse_iptc_records does.
InnerResult(kind, indexes, p, kws) ==
    [kind |-> kind, reads |-> indexes, pos |-> p, kws |-> kws]

\* The indexes of the marker, the record and dataset numbers and the length.
InnerHeader(p) == p .. (p + 4)

\* A mutant: the position is left on the marker.
AfterHeaderStuck(p) == p

\* pos += 5;
AfterHeader(p) == p + INNER_MIN_HEADER

\* Lines 338-369: a dataset whose marker matched; q is pos after the header.
InnerDataset(s, p, kws, record_number, dataset_number, field_len, q) ==
    IF ~FieldFits(q, field_len, Len(s))
    THEN InnerResult("ibrk", InnerHeader(p), p, TruncatedDataset(s, p, kws))
    ELSE IF IsKeywords(record_number, dataset_number)
    THEN InnerResult("keyword",
                     InnerHeader(p) \cup (IF field_len > 0 THEN {q + field_len - 1} ELSE {}),
                     q + field_len,
                     PushKeyword(kws, Slice(s, q, q + field_len)))
    ELSE InnerResult("dataset", InnerHeader(p), q + field_len, kws)

\* One iteration of the loop of parse_iptc_records over the payload s at p.
InnerIter(s, p, kws) ==
    IF ~InnerGuard(p, Len(s)) THEN InnerResult("iexit", {}, p, kws)
    ELSE IF At(s, p) # IPTC_MARKER THEN InnerResult("iskip", {p}, p + 1, kws)
    ELSE InnerDataset(s, p, kws, At(s, p + 1), At(s, p + 2),
                      At(s, p + 3) * 256 + At(s, p + 4), AfterHeader(p))

\* Stands for a panic where a list of keywords is expected.
PanicKws == <<<<-1>>>>

\* An index out of range ends the call with a panic.
Panics(r, len) == \E i \in r.reads : i >= len

RECURSIVE ParseIptcRecords(_, _, _)
\* The rest of parse_iptc_records after an iteration that did r.
AfterInner(s, r) ==
    IF Panics(r, Len(s)) THEN PanicKws
    ELSE IF r.kind \in {"iexit", "ibrk"} THEN r.kws
    ELSE ParseIptcRecords(s, r.pos, r.kws)

\* parse_iptc_records run to its end from position p: the keywords, or
\* PanicKws when an index is out of range.
ParseIptcRecords(s, p, kws) == AfterInner(s, InnerIter(s, p, kws))

RECURSIVE ParseIptcFromPhotoshop(_, _, _)
\* The rest of parse_iptc_from_photoshop after an IPTC block that gave k.
AfterBlock(d, p, k) == IF k = PanicKws THEN k ELSE ParseIptcFromPhotoshop(d, p, k)

\* The rest of parse_iptc_from_photoshop after an iteration that did r.
AfterOuter(d, kws, r) ==
    IF Panics(r, Len(d)) THEN PanicKws
    ELSE IF r.kind \in {"exit", "brk_name", "brk_size"} THEN kws
    ELSE IF r.kind = "iptc"
    THEN AfterBlock(d, r.pos, ParseIptcRecords(Slice(d, r.bs, r.be), 0, kws))
    ELSE ParseIptcFromPhotoshop(d, r.pos, kws)

\* parse_iptc_from_photoshop run to its end from position p.
ParseIptcFromPhotoshop(d, p, kws) == AfterOuter(d, kws, OuterIter(d, p))

(***************************************************************************)
(* Inputs of the IPTC decoder: resource-block streams and damaged copies   *)
(***************************************************************************)
\* Bounds of the model.
MaxItems == 4

MaxBadItems == 4

\* A stream is written as a sequence of items: a block header, followed by
\* the datasets of its payload.  1005 (0x03ED) is a resource other than IPTC.
\* The name lengths 0, 1 and 2 pad to 2, 2 and 4 bytes.
BlockItems ==
    {[k |-> "blk", rid |-> IPTC_RESOURCE_ID, nl |-> 0],
     [k |-> "blk", rid |-> IPTC_RESOURCE_ID, nl |-> 1],
     [k |-> "blk", rid |-> 1005, nl |-> 2]}

\* "A " (UTF-8, trimmed to "A"), 0xE9 (not UTF-8: Latin-1), an empty payload,
\* and datasets with another dataset or record number.
DatasetItems ==
    {[k |-> "ds", rec |-> 2, dsn |-> 25, payload |-> pl] :
        pl \in {<<65, 32>>, <<233>>, <<>>}}
    \cup {[k |-> "ds", rec |-> 2, dsn |-> 5, payload |-> <<67>>],
          [k |-> "ds", rec |-> 1, dsn |-> 25, payload |-> <<68>>]}

BadBlockItems == {[k |-> "blk", rid |-> IPTC_RESOURCE_ID, nl |-> 0]}

BadDatasetItems ==
    {[k |-> "ds", rec |-> 2, dsn |-> 25, payload |-> <<65>>],
     [k |-> "ds", rec |-> 2, dsn |-> 25, payload |-> <<66, 67>>]}

\* The values a damaged byte takes: zero, a small one, the marker, a large one
\* (127 in the top byte of a size field is a size above 2^30).
DamageValues == {0, 1, 28, 127}

Streams(blocks, datasets, n) ==
    {s \in SeqsUpTo(blocks \cup datasets, n) : s = <<>> \/ s[1].k = "blk"}

EncodeDataset(it) ==
    <<IPTC_MARKER, it.rec, it.dsn, Len(it.payload) \div 256, Len(it.payload) % 256>>
    \o it.payload

\* Pascal string of nl bytes 'x' with its length byte, padded to an even total.
EncodeName(nl) ==
    <<nl>> \o [i \in 1..nl |-> 120] \o (IF (nl + 1) % 2 = 1 THEN <<0>> ELSE <<>>)

RECURSIVE PayloadItems(_, _)
\* The datasets that follow the block header at index i.
PayloadItems(s, i) ==
    IF i + 1 <= Len(s) /\ s[i + 1].k = "ds"
    THEN <<s[i + 1]>> \o PayloadItems(s, i + 1)
    ELSE <<>>

EncodeBlock(hd, items) ==
    LET payload == Concat([j \in 1..Len(items) |-> EncodeDataset(items[j])])
        n == Len(payload)
    IN  Sig8BIM \o <<hd.rid \div 256, hd.rid % 256>> \o EncodeName(hd.nl)
        \o <<0, n \div 65536, (n \div 256) % 256, n % 256>>
        \o payload \o (IF n % 2 = 1 THEN <<0>> ELSE <<>>)

\* The even-aligned byte stream of the blocks of s.
EncodeStream(s) ==
    Concat([i \in 1..Len(s) |->
              IF s[i].k = "blk" THEN EncodeBlock(s[i], PayloadItems(s, i)) ELSE <<>>])

RECURSIVE ExpectedKeywords(_, _, _)
\* What a well-formed stream holds: the trimmed non-empty payloads of the 2:25
\* datasets of its 0x0404 blocks, in stream order (rid: the block in force).
ExpectedKeywords(s, i, rid) ==
    IF i > Len(s) THEN <<>>
    ELSE IF s[i].k = "blk" THEN ExpectedKeywords(s, i + 1, s[i].rid)
    ELSE LET kw == DecodeKeyword(s[i].payload)
         IN  (IF rid = 1028 /\ s[i].rec = 2 /\ s[i].dsn = 25 /\ kw # <<>>
              THEN <<kw>> ELSE <<>>)
             \o ExpectedKeywords(s, i + 1, rid)

\* b"Photoshop 3.0\x00"
PhotoshopMarker == <<80, 104, 111, 116, 111, 115, 104, 111, 112, 32, 51, 46, 48, 0>>

\* haystack.windows(needle.len()).position(|window| window == needle): the
\* first zero-based offset of needle, or -1.
FindSubsequence(haystack, needle) ==
    LET hits == {i \in 0..(Len(haystack) - Len(needle)) :
                    SubSeq(haystack, i + 1, i + Len(needle)) = needle}
    IN  IF hits = {} THEN -1 ELSE CHOOSE i \in hits : \A j \in hits : i <= j

\* let irb_data = &data[ps_start + ps_marker.len()..];
IrbFrom(bytes, ps_start) ==
    IF ps_start < 0 THEN <<-1>>
    ELSE Slice(bytes, ps_start + Len(PhotoshopMarker), Len(bytes))

\* The IRB stream read_iptc_keywords hands on: the bytes after the first
\* marker; <<-1>> when the file holds no marker.
IrbStream(bytes) == IrbFrom(bytes, FindSubsequence(bytes, PhotoshopMarker))

\* The keywords of the stream; none when there is no marker.
ParseIrb(irb) == IF irb = <<-1>> THEN <<>> ELSE ParseIptcFromPhotoshop(irb, 0, <<>>)

\* read_iptc_keywords on the bytes of a file (PanicKws: a panic).
ReadIptcKeywords(bytes) == ParseIrb(IrbStream(bytes))

\* A file: the APP13 segment marker, the Photoshop marker, the stream.
FileWith(irb) == <<255, 237>> \o PhotoshopMarker \o irb

WellFormedInputs ==
    {[wf |-> TRUE, kws |-> ExpectedKeywords(s, 1, 0), bytes |-> EncodeStream(s)] :
        s \in Streams(BlockItems, DatasetItems, MaxItems)}

\* Damaged copies: cut short at any length, or one byte overwritten.
DamagedInputs ==
    UNION {LET b == EncodeStream(s)
           IN  {[wf |-> FALSE, kws |-> <<>>, bytes |-> SubSeq(b, 1, n)] :
                    n \in 0..Len(b)}
               \cup {[wf |-> FALSE, kws |-> <<>>, bytes |-> [b EXCEPT ![i] = v]] :
                    i \in 1..Len(b), v \in DamageValues}
           : s \in Streams(BadBlockItems, BadDatasetItems, MaxBadItems)}

NoCut == [where |-> "none", kws |-> <<>>]

XmpIdle == /\ text = <<>>
           /\ xres = [tag |-> "idle", xml |-> <<>>]

\* A file the model can hold: whether it can be opened and read, its EXIF
\* part, its text as the XMP locator sees it, and its bytes as the IPTC
\* decoder sees them.  The three parts are segments of one file that hold
\* none of each other's markers.
Unreadable ==
    [readable |-> FALSE, exif |-> [has |-> FALSE, xp |-> <<>>], text |-> <<>>, irb |-> <<>>]

NoResult == [persons |-> <<>>, keywords |-> <<>>]

ExtractIdle ==
    /\ disk = Unreadable
    /\ rewrites = 0
    /\ epc = "idle"
    /\ all_keywords = <<>>
    /\ persons = <<>>
    /\ seen = [exif |-> Unreadable, xmp |-> Unreadable, iptc |-> Unreadable]
    /\ result = NoResult

\* No ImageInfo: the image of an event without one.
NoImage ==
    [some |-> FALSE, persons |-> <<>>, keywords |-> <<>>, thumbnail |-> "",
     selected_person |-> <<>>]

NoReturn == [tag |-> "none", total_images |-> 0, person_names |-> <<>>]

\* Bounds of the move and undo model: the calls of move_images and of
\* undo_move that are made.
MaxMoves == 2

MaxUndos == 3

\* AppState::new: no log is saved; no call has been made.
UndoIdle ==
    /\ last_operation = 0
    /\ mpc = [m \in 1..MaxMoves |-> "idle"]
    /\ upc = [u \in 1..MaxUndos |-> "idle"]
    /\ ulog = [u \in 1..MaxUndos |-> 0]
    /\ uret = [u \in 1..MaxUndos |-> "none"]
    /\ undone = [m \in 1..MaxMoves |-> 0]

ScanIdle ==
    /\ scanning = FALSE
    /\ cancel_scan = FALSE
    /\ spc = "idle"
    /\ calls = 0
    /\ ret = NoReturn
    /\ files = <<>>
    /\ fstate = <<>>
    /\ finfo = <<>>
    /\ fcount = <<>>
    /\ worker_threads = 0
    /\ wfile = <<>>
    /\ wseen = <<>>
    /\ panicked = FALSE
    /\ scanned_count = 0
    /\ person_buckets = {}
    /\ events = <<>>

IptcStart(inputs) ==
    /\ \E inp \in inputs :
          /\ data = IrbStream(FileWith(inp.bytes))
          /\ expect = [wf |-> inp.wf, kws |-> inp.kws]
    /\ pc = "outer"
    /\ pos = 0
    /\ blk = [bs |-> 0, be |-> 0]
    /\ ipos = 0
    /\ keywords = <<>>
    /\ reads = {}
    /\ buflen = Len(data)
    /\ last = "start"
    /\ cut = NoCut
    /\ XmpIdle
    /\ ExtractIdle
    /\ ScanIdle
    /\ UndoIdle

\* Damaged (and, cut at full length, undamaged) streams.
InitIptc == IptcStart(DamagedInputs)

\* Well-formed streams only.
InitRoundTrip == IptcStart(WellFormedInputs)

\* One iteration of the outer loop.
OuterStep ==
    /\ pc = "outer"
    /\ LET r == OuterIter(data, pos)
       IN  /\ reads' = r.reads
           /\ buflen' = Len(data)
           /\ last' = r.kind
           /\ IF Panics(r, Len(data))
              THEN pc' = "panic" /\ UNCHANGED <<pos, blk, ipos, cut>>
              ELSE \/ /\ r.kind = "exit"
                      /\ pc' = "done"
                      /\ UNCHANGED <<pos, blk, ipos, cut>>
                   \/ /\ r.kind = "skip"
                      /\ pc' = "outer"
                      /\ pos' = r.pos
                      /\ UNCHANGED <<blk, ipos, cut>>
                   \/ /\ r.kind = "brk_name"
                      /\ pc' = "done"
                      /\ cut' = IF cut = NoCut THEN [where |-> "name", kws |-> keywords]
                                ELSE cut
                      /\ UNCHANGED <<pos, blk, ipos>>
                   \/ /\ r.kind = "brk_size"
                      /\ pc' = "done"
                      /\ cut' = IF cut = NoCut THEN [where |-> "block", kws |-> keywords]
                                ELSE cut
                      /\ UNCHANGED <<pos, blk, ipos>>
                   \/ /\ r.kind = "iptc"
                      /\ pc' = "inner"
                      /\ blk' = [bs |-> r.bs, be |-> r.be]
                      /\ ipos' = 0
                      /\ pos' = r.pos
                      /\ UNCHANGED cut
                   \/ /\ r.kind = "other"
                      /\ pc' = "outer"
                      /\ pos' = r.pos
                      /\ UNCHANGED <<blk, ipos, cut>>
    /\ UNCHANGED <<data, expect, keywords, xmpVars, extractVars, scanVars, undoVars>>

\* One iteration of the inner loop, over the payload of the current block;
\* when it ends, the outer loop resumes after the block (pos is already there).
InnerStep ==
    /\ pc = "inner"
    /\ LET s == Slice(data, blk.bs, blk.be)
           r == InnerIter(s, ipos, keywords)
       IN  /\ reads' = r.reads
           /\ buflen' = Len(s)
           /\ last' = r.kind
           /\ IF Panics(r, Len(s))
              THEN pc' = "panic" /\ UNCHANGED <<ipos, keywords, cut>>
              ELSE \/ /\ r.kind = "iexit"
                      /\ pc' = "outer"
                      /\ UNCHANGED <<ipos, keywords, cut>>
                   \/ /\ r.kind = "iskip"
                      /\ pc' = "inner"
                      /\ ipos' = r.pos
                      /\ UNCHANGED <<keywords, cut>>
                   \/ /\ r.kind = "ibrk"
                      /\ pc' = "outer"
                      /\ keywords' = r.kws
                      /\ cut' = IF cut = NoCut
                                THEN [where |-> "dataset", kws |-> keywords]
                                ELSE cut
                      /\ UNCHANGED ipos
                   \/ /\ r.kind \in {"keyword", "dataset"}
                      /\ pc' = "inner"
                      /\ ipos' = r.pos
                      /\ keywords' = r.kws
                      /\ UNCHANGED cut
    /\ UNCHANGED <<data, expect, pos, blk, xmpVars, extractVars, scanVars, undoVars>>

NextIptc == OuterStep \/ InnerStep

SpecIptc == InitIptc /\ [][NextIptc]_vars

SpecRoundTrip == InitRoundTrip /\ [][NextIptc]_vars

(***************************************************************************)
(* SegmentLocator: extract_xmp_from_bytes                                  *)
(*                                                                         *)
(* The lossy UTF-8 view of the file is a sequence of tokens: the four      *)
(* markers and pieces of other text.  Each marker holds '<' at its first   *)
(* byte only, so two marker occurrences never overlap and a string is one  *)
(* such sequence.  Offsets are byte offsets, as in the source.             *)
(*   "XS" <x:xmpmeta     "XE" </x:xmpmeta>                                 *)
(*   "PB" <?xpacket begin  "PE" <?xpacket end                              *)
(***************************************************************************)
MaxText == 5

Markers == {"XS", "XE", "PB", "PE"}

\* start_marker.len(), end_marker.len(); other text counts one byte a token.
TokLen(t) ==
    CASE t = "XS" -> 10
      [] t = "XE" -> 12
      [] t = "PB" -> 15
      [] t = "PE" -> 13
      [] OTHER -> 1

RECURSIVE StrLen(_)
StrLen(t) == IF t = <<>> THEN 0 ELSE TokLen(Head(t)) + StrLen(Tail(t))

\* The byte offset of token k.
OffsetOf(t, k) == StrLen(SubSeq(t, 1, k - 1))

\* str::find: the byte offset of the first occurrence of marker m, or -1.
StrFind(t, m) ==
    LET hits == {k \in 1..Len(t) : t[k] = m}
    IN  IF hits = {} THEN -1
        ELSE OffsetOf(t, CHOOSE k \in hits : \A j \in hits : k <= j)

\* &s[a..b], for offsets on token boundaries with a <= b <= len.
StrSlice(t, a, b) ==
    LET ks == {k \in 1..Len(t) : OffsetOf(t, k) >= a /\ OffsetOf(t, k) + TokLen(t[k]) <= b}
    IN  IF ks = {} THEN <<>>
        ELSE SubSeq(t, CHOOSE k \in ks : \A j \in ks : k <= j,
                       CHOOSE k \in ks : \A j \in ks : k >= j)

XmpNone == [tag |-> "None", xml |-> <<>>]

XmpSome(x) == [tag |-> "Some", xml |-> x]

XmpPanic == [tag |-> "panic", xml |-> <<>>]

\* The slice of line 119: a range whose start lies after its end panics.
NestedSpan(xml_chunk, meta_start, meta_end) ==
    IF meta_start > meta_end + TokLen("XE") THEN XmpPanic
    ELSE XmpSome(StrSlice(xml_chunk, meta_start, meta_end + TokLen("XE")))

\* Stands for the loop going on to the next marker pair.
XmpNext == [tag |-> "next", xml |-> <<>>]

\* Lines 116-122: the chunk, narrowed when it holds both xmpmeta markers.
NarrowTo(xml_chunk, meta_start, meta_end) ==
    IF meta_start >= 0 /\ meta_end >= 0
    THEN NestedSpan(xml_chunk, meta_start, meta_end)
    ELSE XmpSome(xml_chunk)

Narrow(xml_chunk) == NarrowTo(xml_chunk, StrFind(xml_chunk, "XS"), StrFind(xml_chunk, "XE"))

\* Lines 112-114: if let Some(end_pos) = xml_str[start..].find(end_marker)
TryEnd(t, end_marker, start, end_pos) ==
    IF end_pos < 0 THEN XmpNext
    ELSE Narrow(StrSlice(t, start, start + end_pos + TokLen(end_marker)))

\* Line 111: if let Some(start) = xml_str.find(start_marker)
TryStart(t, end_marker, start) ==
    IF start < 0 THEN XmpNext
    ELSE TryEnd(t, end_marker, start, StrFind(StrSlice(t, start, StrLen(t)), end_marker))

\* The body of the loop of lines 110-125 for one marker pair: the value
\* returned, or XmpNext when the pair is not found.
TryPair(t, start_marker, end_marker) == TryStart(t, end_marker, StrFind(t, start_marker))

\* The value of this pair when it is found, the value of the later ones otherwise.
OrElse(found, later) == IF found.tag # "next" THEN found ELSE later

\* extract_xmp_from_bytes: the pairs in their fixed order, the first that is
\* found decides.
ExtractXmpFromBytes(t) ==
    OrElse(TryPair(t, "XS", "XE"), OrElse(TryPair(t, "PB", "PE"), XmpNone))

\* What the locator is to return, read off the token sequence: the range of
\* the first pair found, narrowed to a nested xmpmeta span when it holds one.
FirstAt(t, m, from) ==
    LET hits == {k \in from..Len(t) : t[k] = m}
    IN  IF hits = {} THEN 0 ELSE CHOOSE k \in hits : \A j \in hits : k <= j

ExpectedRange(t, sm, em) ==
    LET i == FirstAt(t, sm, 1)
        j == IF i = 0 THEN 0 ELSE FirstAt(t, em, i + 1)
    IN  IF i = 0 \/ j = 0 THEN <<"-">> ELSE SubSeq(t, i, j)

ExpectedXmp(t) ==
    LET r1 == ExpectedRange(t, "XS", "XE")
        r2 == ExpectedRange(t, "PB", "PE")
        range == IF r1 # <<"-">> THEN r1 ELSE r2
        span == ExpectedRange(range, "XS", "XE")
    IN  IF range = <<"-">> THEN XmpNone
        ELSE IF span # <<"-">> THEN XmpSome(span)
        ELSE XmpSome(range)

IptcIdle ==
    /\ data = <<>>
    /\ expect = [wf |-> FALSE, kws |-> <<>>]
    /\ pc = "idle"
    /\ pos = 0
    /\ blk = [bs |-> 0, be |-> 0]
    /\ ipos = 0
    /\ keywords = <<>>
    /\ reads = {}
    /\ buflen = 0
    /\ last = "start"
    /\ cut = NoCut

InitXmp ==
    /\ text \in SeqsUpTo(Markers \cup {"c"}, MaxText)
    /\ xres = [tag |-> "pending", xml |-> <<>>]
    /\ IptcIdle
    /\ ExtractIdle
    /\ ScanIdle
    /\ UndoIdle

\* One call of extract_xmp_from_bytes.
ExtractXmp ==
    /\ xres.tag = "pending"
    /\ xres' = ExtractXmpFromBytes(text)
    /\ UNCHANGED <<text, iptcVars, extractVars, scanVars, undoVars>>

SpecXmp == InitXmp /\ [][ExtractXmp]_vars

(***************************************************************************)
(* Claims on the XMP locator                                               *)
(***************************************************************************)
\* C7: extract_xmp_from_bytes tries ("<x:xmpmeta","</x:xmpmeta>") and then
\* ("<?xpacket begin","<?xpacket end"); for the first pair found it returns
\* the range from the first start marker to the end of the first following
\* end marker, narrowed to the nested xmpmeta span when the range holds one;
\* the result is None when neither pair is found.
C7_LocatorResult == xres.tag # "pending" => xres = ExpectedXmp(text)

(***************************************************************************)
(* String helpers: str::contains, str::split, str::to_lowercase            *)
(***************************************************************************)
\* haystack.contains(needle)
Contains(s, sub) ==
    \E i \in 0..(Len(s) - Len(sub)) : SubSeq(s, i + 1, i + Len(sub)) = sub

RECURSIVE Split(_, _)
\* s.split(sep).collect(): the pieces between the separators (one piece more
\* than there are separators).
Split(s, sep) ==
    LET hits == {i \in 1..Len(s) : s[i] = sep}
    IN  IF hits = {} THEN <<s>>
        ELSE LET i == CHOOSE k \in hits : \A j \in hits : k <= j
             IN  <<SubSeq(s, 1, i - 1)>> \o Split(SubSeq(s, i + 1, Len(s)), sep)

\* char::to_lowercase for ASCII and Latin-1 letters; other code points of the
\* model's texts have no case.
LowerChar(c) ==
    IF (c >= 65 /\ c <= 90) \/ (c >= 192 /\ c <= 222 /\ c # 215) THEN c + 32 ELSE c

ToLowercase(s) == [i \in 1..Len(s) |-> LowerChar(s[i])]

\* "people", "person", "人物", "人", "name"
StrPeople == <<112, 101, 111, 112, 108, 101>>

StrPerson == <<112, 101, 114, 115, 111, 110>>

StrRenWu == <<20154, 29289>>

StrRen == <<20154>>

StrName == <<110, 97, 109, 101>>

StrTrue == <<116, 114, 117, 101>>

StrFalse == <<102, 97, 108, 115, 101>>

(***************************************************************************)
(* XmpHeuristicDecoder: parse_xmp_xml and extract_region_persons           *)
(*                                                                         *)
(* A parsed document is its nodes in document order; a node holds its      *)
(* local tag name, the index of its parent (0: the root), the text of its  *)
(* first text child (has: whether there is one) and its attributes (local  *)
(* name and value).                                                        *)
(***************************************************************************)
NoText == [has |-> FALSE, s |-> <<>>]

TextOf(s) == [has |-> TRUE, s |-> s]

El(tag, parent) == [tag |-> tag, parent |-> parent, text |-> NoText, attrs |-> <<>>]

Li(parent, s) == [tag |-> "li", parent |-> parent, text |-> TextOf(s), attrs |-> <<>>]

RECURSIVE IsDescendant(_, _, _)
\* Whether node m is node n or lies below it.
IsDescendant(nodes, n, m) ==
    IF m = n THEN TRUE
    ELSE IF m = 0 \/ m < n THEN FALSE
    ELSE IsDescendant(nodes, n, nodes[m].parent)

\* node.descendants(): the node itself and the nodes below it, in document order.
Descendants(nodes, n) ==
    SelectSeq([i \in 1..Len(nodes) |-> i], LAMBDA m : IsDescendant(nodes, n, m))

\* The texts of the li elements below node n that hold a text, trimmed.
LiTexts(nodes, n) ==
    Map(LAMBDA m : Trim(nodes[m].text.s),
        SelectSeq(Descendants(nodes, n),
                  LAMBDA m : nodes[m].tag = "li" /\ nodes[m].text.has))

\* dc:subject: each li text that is not empty is a keyword.
SubjectKeywords(nodes, n) == SelectSeq(LiTexts(nodes, n), LAMBDA t : t # <<>>)

\* A mutant: the category test of hierarchicalSubject without "人".
IsPersonCategoryHierLatin(category) ==
    \/ Contains(category, StrPeople)
    \/ Contains(category, StrPerson)

\* The category test of hierarchicalSubject (lines 173-176).
IsPersonCategoryHier(category) ==
    \/ Contains(category, StrPeople)
    \/ Contains(category, StrPerson)
    \/ Contains(category, StrRenWu)
    \/ Contains(category, StrRen)

\* The category test of TagsList (lines 197-199).
IsPersonCategoryTags(category) ==
    \/ Contains(category, StrPeople)
    \/ Contains(category, StrPerson)
    \/ Contains(category, StrRenWu)

\* The persons one li text of hierarchicalSubject (sep '|', 124) or of
\* TagsList (sep '/', 47) yields: the trimmed last part, or nothing.
PartsPerson(parts, hier) ==
    IF /\ Len(parts) >= 2
       /\ IF hier THEN IsPersonCategoryHier(ToLowercase(parts[1]))
          ELSE IsPersonCategoryTags(ToLowercase(parts[1]))
    THEN <<Trim(parts[Len(parts)])>>
    ELSE <<>>

PathPerson(t, sep, hier) ==
    IF \E i \in 1..Len(t) : t[i] = sep THEN PartsPerson(Split(t, sep), hier) ELSE <<>>

PathPersons(nodes, n, sep, hier) ==
    FlatMap(LAMBDA t : PathPerson(t, sep, hier), LiTexts(nodes, n))

\* The persons one attribute yields (lines 238-247).
NamedValue(name, val) ==
    IF /\ Contains(name, StrName) \/ Contains(name, StrPerson)
       /\ val # <<>>
       /\ val # StrTrue
       /\ val # StrFalse
    THEN <<val>>
    ELSE <<>>

AttrPerson(attr) == NamedValue(ToLowercase(attr.name), Trim(attr.value))

\* The persons one node below a region element yields: the text of a Name
\* element, the text of a PersonDisplayName element, then its attributes.
TextPerson(node, tag, t) ==
    IF node.tag = tag /\ node.text.has /\ t # <<>> THEN <<t>> ELSE <<>>

RegionNodePersons(node) ==
    TextPerson(node, "Name", Trim(node.text.s))
    \o TextPerson(node, "PersonDisplayName", Trim(node.text.s))
    \o FlatMap(AttrPerson, node.attrs)

\* extract_region_persons
ExtractRegionPersons(nodes, n) ==
    FlatMap(LAMBDA m : RegionNodePersons(nodes[m]), Descendants(nodes, n))

\* The persons parse_xmp_xml pushes while it visits node n.
NodePersons(nodes, n) ==
    (IF nodes[n].tag \in {"RegionList", "Regions", "RegionInfo"}
     THEN ExtractRegionPersons(nodes, n) ELSE <<>>)
    \o (IF nodes[n].tag = "hierarchicalSubject"
        THEN PathPersons(nodes, n, 124, TRUE) ELSE <<>>)
    \o (IF nodes[n].tag = "TagsList"
        THEN PathPersons(nodes, n, 47, FALSE) ELSE <<>>)

\* The keywords parse_xmp_xml pushes while it visits node n.
NodeKeywords(nodes, n) ==
    IF nodes[n].tag = "subject" THEN SubjectKeywords(nodes, n) ELSE <<>>

\* Texts of single li elements, by the token that stands for the element in
\* a document: under lr:hierarchicalSubject
\*   H1 "People|Alice"   H2 " people | Bob "   H3 "Places|D"   H4 "E"
\*   H5 "人|C"           H6 "A|person|F"       H7 "PERSONAL|x|G"
\*   H8 "People|"
\* under digiKam:TagsList
\*   T1 "People/"        T2 "人/Z"             T3 "my people/a/ Y"
\* and under dc:subject
\*   S1 " K "
HierTexts ==
    [H1 |-> <<80, 101, 111, 112, 108, 101, 124, 65, 108, 105, 99, 101>>,
     H2 |-> <<32, 112, 101, 111, 112, 108, 101, 32, 124, 32, 66, 111, 98, 32>>,
     H3 |-> <<80, 108, 97, 99, 101, 115, 124, 68>>,
     H4 |-> <<69>>,
     H5 |-> <<20154, 124, 67>>,
     H6 |-> <<65, 124, 112, 101, 114, 115, 111, 110, 124, 70>>,
     H7 |-> <<80, 69, 82, 83, 79, 78, 65, 76, 124, 120, 124, 71>>,
     H8 |-> <<80, 101, 111, 112, 108, 101, 124>>]

TagsTexts ==
    [T1 |-> <<80, 101, 111, 112, 108, 101, 47>>,
     T2 |-> <<20154, 47, 90>>,
     T3 |-> <<109, 121, 32, 112, 101, 111, 112, 108, 101, 47, 97, 47, 32, 89>>]

SubjectTexts == [S1 |-> <<32, 75, 32>>]

\* An element of the given tag holding one container with one li.
OneLi(tag, s) == <<El(tag, 0), El("Bag", 1), Li(2, s)>>

\* The XML fragments of the model's documents, as the nodes below the
\* x:xmpmeta element (parent 0: a child of x:xmpmeta).
\*   Subj: dc:subject with li "B", " A ", "" and one li without text
\*   Hier: lr:hierarchicalSubject with li "People|C", "Places|D", "E"
\*   Reg:  MP:RegionInfo over MPRI:Regions with an li carrying
\*         PersonDisplayName="F" and Rectangle="x", and a mwg-rs:Name "G"
\*   Tags: digiKam:TagsList with li "People/H" and "Places/I"
Fragment(tok) ==
    CASE tok = "Subj" ->
            <<El("subject", 0), El("Bag", 1), Li(2, <<66>>), Li(2, <<32, 65, 32>>),
              Li(2, <<>>), El("li", 2)>>
      [] tok = "Hier" ->
            <<El("hierarchicalSubject", 0), El("Bag", 1),
              Li(2, <<80, 101, 111, 112, 108, 101, 124, 67>>),
              Li(2, <<80, 108, 97, 99, 101, 115, 124, 68>>),
              Li(2, <<69>>)>>
      [] tok = "Reg" ->
            <<El("RegionInfo", 0), El("Regions", 1), El("Bag", 2),
              [tag |-> "li", parent |-> 3, text |-> NoText,
               attrs |-> <<[name |-> <<80, 101, 114, 115, 111, 110, 68, 105, 115, 112,
                                       108, 97, 121, 78, 97, 109, 101>>,
                            value |-> <<70>>],
                           [name |-> <<82, 101, 99, 116, 97, 110, 103, 108, 101>>,
                            value |-> <<120>>]>>],
              [tag |-> "Name", parent |-> 2, text |-> TextOf(<<71, 32>>), attrs |-> <<>>]>>
      [] tok = "Tags" ->
            <<El("TagsList", 0), El("Seq", 1),
              Li(2, <<80, 101, 111, 112, 108, 101, 47, 72>>),
              Li(2, <<80, 108, 97, 99, 101, 115, 47, 73>>)>>
      [] tok \in DOMAIN HierTexts -> OneLi("hierarchicalSubject", HierTexts[tok])
      [] tok \in DOMAIN TagsTexts -> OneLi("TagsList", TagsTexts[tok])
      [] tok \in DOMAIN SubjectTexts -> OneLi("subject", SubjectTexts[tok])
      [] OTHER -> <<>>

LiFragments == DOMAIN HierTexts \cup DOMAIN TagsTexts \cup DOMAIN SubjectTexts

Fragments == {"Subj", "Hier", "Reg", "Tags"} \cup LiFragments

\* The nodes of fragment f as they follow base nodes of the document.
Moved(f, base) ==
    Map(LAMBDA node : [node EXCEPT !.parent = IF node.parent = 0 THEN 1
                                              ELSE node.parent + base], f)

RECURSIVE BuildNodes(_, _)
\* The nodes of the fragments toks, appended to the nodes built so far; node 1
\* is the x:xmpmeta element.
BuildNodes(sofar, toks) ==
    IF toks = <<>> THEN sofar
    ELSE BuildNodes(sofar \o Moved(Fragment(Head(toks)), Len(sofar)), Tail(toks))

\* roxmltree::Document::parse on the chunk: Ok for one x:xmpmeta element
\* holding well-formed fragments and plain text, Err otherwise.
ParseXml(xml) ==
    IF /\ Len(xml) >= 2
       /\ xml[1] = "XS"
       /\ xml[Len(xml)] = "XE"
       /\ \A i \in 2..(Len(xml) - 1) : xml[i] \in Fragments \cup {"c"}
    THEN [ok |-> TRUE,
          nodes |-> BuildNodes(<<El("xmpmeta", 0)>>, SubSeq(xml, 2, Len(xml) - 1))]
    ELSE [ok |-> FALSE, nodes |-> <<>>]

\* for node in doc.descendants(): what the loop pushes to persons and to keywords.
VisitNodes(ns) ==
    [persons  |-> FlatMap(LAMBDA n : NodePersons(ns, n), [n \in 1..Len(ns) |-> n]),
     keywords |-> FlatMap(LAMBDA n : NodeKeywords(ns, n), [n \in 1..Len(ns) |-> n])]

\* Lines 138-141: a document that does not parse leaves both lists as they are.
VisitDocument(doc) ==
    IF ~doc.ok THEN [persons |-> <<>>, keywords |-> <<>>] ELSE VisitNodes(doc.nodes)

\* parse_xmp_xml: what it pushes to persons and to keywords.
ParseXmpXml(xml) == VisitDocument(ParseXml(xml))

TaggedOk(pk) == [tag |-> "Ok", persons |-> pk.persons, keywords |-> pk.keywords]

\* Lines 90-98: the located chunk is parsed; without one both lists stay empty.
ReadLocated(x) ==
    IF x.tag = "panic" THEN [tag |-> "panic", persons |-> <<>>, keywords |-> <<>>]
    ELSE IF x.tag = "Some" THEN TaggedOk(ParseXmpXml(x.xml))
    ELSE [tag |-> "Ok", persons |-> <<>>, keywords |-> <<>>]

\* read_xmp_data on the text of a file: Ok((persons, keywords)), or a panic.
ReadXmpData(t) == ReadLocated(ExtractXmpFromBytes(t))

(***************************************************************************)
(* ExifXpKeywordsDecoder: read_exif_keywords                               *)
(***************************************************************************)
\* bytes.chunks_exact(2).map(u16::from_le_bytes): a trailing odd byte is dropped.
U16Units(bytes) ==
    [i \in 1..(Len(bytes) \div 2) |-> bytes[2 * i - 1] + 256 * bytes[2 * i]]

RECURSIVE Utf16Lossy(_)
\* String::from_utf16_lossy: surrogate pairs combined, a lone surrogate
\* replaced by U+FFFD.
Utf16Lossy(u) ==
    IF u = <<>> THEN <<>>
    ELSE LET h == Head(u)
         IN  IF h >= 55296 /\ h <= 56319 /\ Len(u) >= 2 /\ u[2] >= 56320 /\ u[2] <= 57343
             THEN <<65536 + (h - 55296) * 1024 + (u[2] - 56320)>>
                  \o Utf16Lossy(SubSeq(u, 3, Len(u)))
             ELSE IF h >= 55296 /\ h <= 57343
             THEN <<65533>> \o Utf16Lossy(Tail(u))
             ELSE <<h>> \o Utf16Lossy(Tail(u))

RECURSIVE TrimEndNul(_)
\* text.trim_end_matches('\0')
TrimEndNul(s) ==
    IF s # <<>> /\ s[Len(s)] = 0 THEN TrimEndNul(SubSeq(s, 1, Len(s) - 1)) ELSE s

\* The keywords of an XPKeywords value: split on ';' (59), trimmed, not empty.
XpKeywords(bytes) ==
    SelectSeq(Map(Trim, Split(TrimEndNul(Utf16Lossy(U16Units(bytes))), 59)),
              LAMBDA kw : kw # <<>>)

\* read_exif_keywords on the EXIF part of a file: an error without an EXIF
\* container, the keywords of tag 0x9C9E otherwise.
ReadExifKeywords(exif) ==
    IF ~exif.has THEN [tag |-> "Err", keywords |-> <<>>]
    ELSE [tag |-> "Ok", keywords |-> XpKeywords(exif.xp)]

(***************************************************************************)
(* Aggregator: extract_person_tags                                         *)
(***************************************************************************)
RECURSIVE LexLess(_, _)
\* a < b for strings: the byte-wise order of UTF-8 is the code point order.
LexLess(a, b) ==
    IF b = <<>> THEN FALSE
    ELSE IF a = <<>> THEN TRUE
    ELSE IF Head(a) # Head(b) THEN Head(a) < Head(b)
    ELSE LexLess(Tail(a), Tail(b))

RECURSIVE InsertSorted(_, _)
InsertSorted(sorted, x) ==
    IF sorted = <<>> THEN <<x>>
    ELSE IF LexLess(x, Head(sorted)) THEN <<x>> \o sorted
    ELSE <<Head(sorted)>> \o InsertSorted(Tail(sorted), x)

\* A mutant: the lists are merged without the sort.
SortStringsOmitted(v) == v

RECURSIVE SortStrings(_)
\* Vec::sort: ascending (a stable sort; equal strings are indistinguishable).
SortStrings(v) ==
    IF v = <<>> THEN <<>>
    ELSE InsertSorted(SortStrings(SubSeq(v, 1, Len(v) - 1)), v[Len(v)])

\* A mutant: dedup is left out.
DedupOmitted(v) == v

\* Vec::dedup: of consecutive equal elements the first is kept.
Dedup(v) == SelectSeq([i \in 1..Len(v) |-> IF i > 1 /\ v[i] = v[i - 1] THEN <<-1>> ELSE v[i]],
                      LAMBDA x : x # <<-1>>)

\* A mutant: the keywords are taken as persons whether or not the XMP rules
\* found any.
FallbackAlways(ps, ks) == ks

\* if persons.is_empty() && !all_keywords.is_empty() { persons = all_keywords.clone(); }
Fallback(ps, ks) == IF ps = <<>> /\ ks # <<>> THEN ks ELSE ps

\* Lines 37-41: the fallback, then Ok((persons, all_keywords)).
Returned(sorted_persons, sorted_keywords) ==
    [persons |-> Fallback(sorted_persons, sorted_keywords), keywords |-> sorted_keywords]

\* Lines 30-41: sort, dedup, fallback.
Aggregate(ps, ks) == Returned(Dedup(SortStrings(ps)), Dedup(SortStrings(ks)))

\* The files of the model: every combination of the parts below, and the
\* file that cannot be read.
ExifParts ==
    {[has |-> FALSE, xp |-> <<>>],
     \* "A; B\0" in UTF-16LE
     [has |-> TRUE, xp |-> <<65, 0, 59, 0, 32, 0, 66, 0, 0, 0>>]}

TextParts ==
    {<<>>,
     <<"c", "XS", "Subj", "XE", "c">>,
     <<"PB", "XS", "Subj", "Hier", "XE", "PE">>,
     <<"XS", "Reg", "Tags", "XE">>,
     <<"XS", "<", "XE">>,
     <<"PB", "XE", "c", "XS", "PE">>}

IrbParts ==
    LET two == EncodeStream(<<[k |-> "blk", rid |-> IPTC_RESOURCE_ID, nl |-> 1],
                              [k |-> "ds", rec |-> 2, dsn |-> 25, payload |-> <<65, 32>>],
                              [k |-> "ds", rec |-> 2, dsn |-> 25, payload |-> <<233>>]>>)
    IN  {<<>>, FileWith(two), FileWith(SubSeq(two, 1, Len(two) - 1))}

Contents ==
    {[readable |-> TRUE, exif |-> e, text |-> t, irb |-> b] :
        e \in ExifParts, t \in TextParts, b \in IrbParts}
    \cup {Unreadable}

MaxRewrites == 1

InitExtract ==
    /\ disk \in Contents
    /\ rewrites = 0
    /\ epc = "exif"
    /\ all_keywords = <<>>
    /\ persons = <<>>
    /\ seen = [exif |-> Unreadable, xmp |-> Unreadable, iptc |-> Unreadable]
    /\ result = NoResult
    /\ IptcIdle
    /\ XmpIdle
    /\ ScanIdle
    /\ UndoIdle

\* Lines 14-17: read_exif_keywords opens the file (an error leaves
\* all_keywords as it is).
ReadExif ==
    /\ epc = "exif"
    /\ \E r \in {ReadExifKeywords(disk.exif)} :
          all_keywords' = IF disk.readable /\ r.tag = "Ok"
                          THEN all_keywords \o r.keywords ELSE all_keywords
    /\ seen' = [seen EXCEPT !.exif = disk]
    /\ epc' = "xmp"
    /\ UNCHANGED <<disk, rewrites, persons, result, iptcVars, xmpVars, scanVars, undoVars>>

\* Lines 19-23: read_xmp_data reads the file again.
ReadXmp ==
    /\ epc = "xmp"
    /\ \E r \in {ReadXmpData(disk.text)} :
          IF ~disk.readable
          THEN epc' = "iptc" /\ UNCHANGED <<persons, all_keywords>>
          ELSE IF r.tag = "panic"
          THEN epc' = "panicked" /\ UNCHANGED <<persons, all_keywords>>
          ELSE /\ epc' = "iptc"
               /\ persons' = persons \o r.persons
               /\ all_keywords' = all_keywords \o r.keywords
    /\ seen' = [seen EXCEPT !.xmp = disk]
    /\ UNCHANGED <<disk, rewrites, result, iptcVars, xmpVars, scanVars, undoVars>>

\* Lines 25-41: read_iptc_keywords reads the file a third time; then the
\* lists are sorted and deduplicated, the fallback is applied and the pair
\* is returned.
ReadIptcAndReturn ==
    /\ epc = "iptc"
    /\ \E k \in {IF disk.readable THEN ReadIptcKeywords(disk.irb) ELSE <<>>} :
          IF k = PanicKws
          THEN epc' = "panicked" /\ UNCHANGED <<all_keywords, result>>
          ELSE /\ epc' = "done"
               /\ all_keywords' = all_keywords \o k
               /\ result' = Aggregate(persons, all_keywords \o k)
    /\ seen' = [seen EXCEPT !.iptc = disk]
    /\ UNCHANGED <<disk, rewrites, persons, iptcVars, xmpVars, scanVars, undoVars>>

\* Another process rewrites the file while the call runs.
Rewrite ==
    /\ epc \in {"exif", "xmp", "iptc"}
    /\ rewrites < MaxRewrites
    /\ disk' \in Contents \ {disk}
    /\ rewrites' = rewrites + 1
    /\ UNCHANGED <<epc, all_keywords, persons, seen, result, iptcVars, xmpVars, scanVars, undoVars>>

NextExtract == ReadExif \/ ReadXmp \/ ReadIptcAndReturn \/ Rewrite

SpecExtract == InitExtract /\ [][NextExtract]_vars

\* The extraction on files that nobody rewrites and that hold an XMP packet
\* of up to MaxLis single-li elements.
MaxLis == 2

TagContents ==
    {[readable |-> TRUE, exif |-> [has |-> FALSE, xp |-> <<>>],
      text |-> <<"XS">> \o lis \o <<"XE">>, irb |-> <<>>] :
        lis \in SeqsUpTo(LiFragments, MaxLis)}

InitTags ==
    /\ disk \in TagContents
    /\ rewrites = 0
    /\ epc = "exif"
    /\ all_keywords = <<>>
    /\ persons = <<>>
    /\ seen = [exif |-> Unreadable, xmp |-> Unreadable, iptc |-> Unreadable]
    /\ result = NoResult
    /\ IptcIdle
    /\ XmpIdle
    /\ ScanIdle
    /\ UndoIdle

NextTags == ReadExif \/ ReadXmp \/ ReadIptcAndReturn

SpecTags == InitTags /\ [][NextTags]_vars

\* The extraction on every file of Contents, with nobody rewriting it.
SpecMerge == InitExtract /\ [][NextTags]_vars

\* Lines 10-41 over what the three decoders gave.
Extracted(e, x, k) ==
    IF x.tag = "panic" \/ k = PanicKws
    THEN [tag |-> "panic", persons |-> <<>>, keywords |-> <<>>]
    ELSE TaggedOk(Aggregate(x.persons, e.keywords \o x.keywords \o k))

\* extract_person_tags on a file nobody rewrites: the pair returned, or a panic.
ExtractPersonTags(c) ==
    IF ~c.readable THEN TaggedOk(NoResult)
    ELSE Extracted(ReadExifKeywords(c.exif), ReadXmpData(c.text), ReadIptcKeywords(c.irb))

(***************************************************************************)
(* ScanOrchestrator: scan_images, cancel_scan and process_single_image     *)
(*                                                                         *)
(* One call of scan_images is in flight at a time (a call that finds       *)
(* scanning set returns at once).  The closures of the parallel iterator   *)
(* run on the threads of the pool, one file a thread at a time, in any     *)
(* order.  A Relaxed load of the cancel flag may still give false after    *)
(* cancel_scan has stored true; a thread that has once loaded true loads   *)
(* true from then on.                                                      *)
(***************************************************************************)
MaxFiles == 2

MaxWorkers == 2

MaxScans == 2

\* A file with a person in its XMP, and a file whose xpacket wrapper holds
\* the xmpmeta markers in reverse order.
TaggedFile ==
    [readable |-> TRUE, exif |-> [has |-> FALSE, xp |-> <<>>],
     text |-> <<"PB", "XS", "Hier", "XE", "PE">>, irb |-> <<>>]

ReversedFile ==
    [readable |-> TRUE, exif |-> [has |-> FALSE, xp |-> <<>>],
     text |-> <<"PB", "XE", "c", "XS", "PE">>, irb |-> <<>>]

\* The files a scanned directory holds.
ScanCatalogue == {Unreadable, TaggedFile, ReversedFile}

\* scan_image_files: the image files found, in the order of the walk.
Batches == SeqsUpTo(ScanCatalogue, MaxFiles)

\* generate_thumbnail(path).unwrap_or_default(): empty when the file cannot
\* be opened as an image.
Thumbnail(c) == IF c.readable THEN "data:image/jpeg" ELSE ""

\* if !persons.is_empty() { Some(persons[0].clone()) } else { None }
SelectedPerson(ps) == IF ps # <<>> THEN <<ps[1]>> ELSE <<>>

\* Lines 73-82 of scanner.rs (the fresh id is left out).
ImageInfo(c, r) ==
    [some |-> TRUE, persons |-> r.persons, keywords |-> r.keywords,
     thumbnail |-> Thumbnail(c), selected_person |-> SelectedPerson(r.persons)]

\* process_single_image over what extract_person_tags gave: Ok(info), or the
\* panic of extract_person_tags going through.
Processed(c, r) ==
    IF r.tag = "panic" THEN [tag |-> "panic", info |-> NoImage]
    ELSE [tag |-> "Ok", info |-> ImageInfo(c, r)]

\* process_single_image
ProcessSingleImage(c) == Processed(c, ExtractPersonTags(c))

\* Lines 92-119 of commands.rs: the event of one file.
FileEvent(res, current_count, total, i) ==
    IF res.tag = "Ok"
    THEN [scanned |-> current_count, image |-> res.info,
          done |-> current_count >= total, cancelled |-> FALSE, error |-> "None",
          file |-> i]
    ELSE [scanned |-> current_count, image |-> NoImage,
          done |-> current_count >= total, cancelled |-> FALSE, error |-> "Some",
          file |-> i]

\* Lines 127-144: the event after the parallel loop.
FinalEvent(final_count, was_cancelled) ==
    [scanned |-> final_count, image |-> NoImage, done |-> TRUE,
     cancelled |-> was_cancelled, error |-> "None", file |-> 0]

\* Lines 125-145: the events after the parallel loop.
FinalEvents(final_count, total, cancel_seen) ==
    IF cancel_seen THEN <<FinalEvent(final_count, TRUE)>>
    ELSE IF total = 0 THEN <<FinalEvent(0, FALSE)>>
    ELSE <<>>

RECURSIVE SortedNames(_)
\* person_buckets.into_iter().collect() and person_names.sort()
SortedFrom(S, x) == <<x>> \o SortedNames(S \ {x})

SortedNames(S) ==
    IF S = {} THEN <<>>
    ELSE SortedFrom(S, CHOOSE x \in S : \A y \in S \ {x} : LexLess(x, y))

\* Lines 150-154: Ok(ScanStats { .. })
ScanStats(final_count, names) ==
    [tag |-> "Ok", total_images |-> final_count, person_names |-> SortedNames(names)]

\* The Err values of scan_images.
ErrBusy == [tag |-> "ErrBusy", total_images |-> 0, person_names |-> <<>>]

ErrPool == [tag |-> "ErrPool", total_images |-> 0, person_names |-> <<>>]

ErrTask == [tag |-> "ErrTask", total_images |-> 0, person_names |-> <<>>]

\* cancel_flag.load(Ordering::Relaxed) in a closure run by worker w.
WorkerLoad(w) == IF wseen[w] THEN {TRUE} ELSE {cancel_scan, FALSE}

\* cancel_flag.load(Ordering::Relaxed) after pool.install, which the closures
\* of the workers happen before.
FinalLoad == IF \E w \in DOMAIN wseen : wseen[w] THEN {TRUE} ELSE {cancel_scan, FALSE}

InitScan ==
    /\ ScanIdle
    /\ UndoIdle
    /\ IptcIdle
    /\ XmpIdle
    /\ ExtractIdle

\* Lines 45-52, scanning clear: the call goes on.
BeginScan ==
    /\ ~scanning
    /\ spc = "idle"
    /\ calls < MaxScans
    /\ calls' = calls + 1
    /\ scanning' = TRUE
    /\ spc' = "entered"
    /\ UNCHANGED <<cancel_scan, ret, files, fstate, finfo, fcount, worker_threads, wfile,
                   wseen, panicked, scanned_count, person_buckets, events>>
    /\ UNCHANGED <<iptcVars, xmpVars, extractVars, undoVars>>

\* Lines 45-50, scanning set: Err("已有扫描任务在进行中").
RejectScan ==
    /\ scanning
    /\ calls < MaxScans
    /\ calls' = calls + 1
    /\ ret' = ErrBusy
    /\ UNCHANGED <<scanning, cancel_scan, spc, files, fstate, finfo, fcount, worker_threads,
                   wfile, wseen, panicked, scanned_count, person_buckets, events>>
    /\ UNCHANGED <<iptcVars, xmpVars, extractVars, undoVars>>

\* Line 54: state.cancel_scan.store(false, Ordering::Relaxed)
ResetCancel ==
    /\ spc = "entered"
    /\ cancel_scan' = FALSE
    /\ spc' = "spawned"
    /\ UNCHANGED <<scanning, calls, ret, files, fstate, finfo, fcount, worker_threads,
                   wfile, wseen, panicked, scanned_count, person_buckets, events>>
    /\ UNCHANGED <<iptcVars, xmpVars, extractVars, undoVars>>

\* Lines 63-70: the files are listed, the set and the counter are created.
\* The events of the scan before are no longer looked at.
ListFiles ==
    /\ spc = "spawned"
    /\ \E batch \in Batches :
          /\ files' = batch
          /\ fstate' = [i \in 1..Len(batch) |-> "todo"]
          /\ finfo' = [i \in 1..Len(batch) |-> [tag |-> "none", info |-> NoImage]]
          /\ fcount' = [i \in 1..Len(batch) |-> 0]
    /\ scanned_count' = 0
    /\ person_buckets' = {}
    /\ panicked' = FALSE
    /\ events' = <<>>
    /\ spc' = "listed"
    /\ UNCHANGED <<scanning, cancel_scan, calls, ret, worker_threads, wfile, wseen>>
    /\ UNCHANGED <<iptcVars, xmpVars, extractVars, undoVars>>

\* Lines 74-80: the pool is built with 1 to 6 threads (as many as the model
\* has workers), or building it fails and the call returns Err with scanning
\* left set.
BuildPool ==
    /\ spc = "listed"
    /\ \/ /\ worker_threads' \in 1..MaxWorkers
          /\ wfile' = [w \in 1..MaxWorkers |-> 0]
          /\ wseen' = [w \in 1..MaxWorkers |-> FALSE]
          /\ spc' = "workers"
          /\ UNCHANGED ret
       \/ /\ ret' = ErrPool
          /\ spc' = "idle"
          /\ UNCHANGED <<worker_threads, wfile, wseen>>
    /\ UNCHANGED <<scanning, cancel_scan, calls, files, fstate, finfo, fcount, panicked,
                   scanned_count, person_buckets, events>>
    /\ UNCHANGED <<iptcVars, xmpVars, extractVars, undoVars>>

\* Lines 83-87: worker w takes file i and loads the cancel flag; a set flag
\* ends the closure.
CheckCancel(w, i) ==
    /\ spc = "workers"
    /\ w <= worker_threads
    /\ wfile[w] = 0
    /\ fstate[i] = "todo"
    /\ \E flag \in WorkerLoad(w) :
          IF flag
          THEN /\ fstate' = [fstate EXCEPT ![i] = "skipped"]
               /\ wseen' = [wseen EXCEPT ![w] = TRUE]
               /\ UNCHANGED wfile
          ELSE /\ fstate' = [fstate EXCEPT ![i] = "started"]
               /\ wfile' = [wfile EXCEPT ![w] = i]
               /\ UNCHANGED wseen
    /\ UNCHANGED <<scanning, cancel_scan, spc, calls, ret, files, finfo, fcount,
                   worker_threads, panicked, scanned_count, person_buckets, events>>
    /\ UNCHANGED <<iptcVars, xmpVars, extractVars, undoVars>>

\* Line 89: process_single_image; a panic unwinds the closure.
Process(w) ==
    /\ spc = "workers"
    /\ wfile[w] # 0
    /\ fstate[wfile[w]] = "started"
    /\ \E r \in {ProcessSingleImage(files[wfile[w]])} :
          IF r.tag = "panic"
          THEN /\ fstate' = [fstate EXCEPT ![wfile[w]] = "panicked"]
               /\ wfile' = [wfile EXCEPT ![w] = 0]
               /\ panicked' = TRUE
               /\ UNCHANGED finfo
          ELSE /\ fstate' = [fstate EXCEPT ![wfile[w]] = "processed"]
               /\ finfo' = [finfo EXCEPT ![wfile[w]] = r]
               /\ UNCHANGED <<wfile, panicked>>
    /\ UNCHANGED <<scanning, cancel_scan, spc, calls, ret, files, fcount, worker_threads,
                   wseen, scanned_count, person_buckets, events>>
    /\ UNCHANGED <<iptcVars, xmpVars, extractVars, undoVars>>

\* Line 90: scanned_count.fetch_add(1, Ordering::SeqCst) + 1
Count(w) ==
    /\ spc = "workers"
    /\ wfile[w] # 0
    /\ fstate[wfile[w]] = "processed"
    /\ scanned_count' = scanned_count + 1
    /\ fcount' = [fcount EXCEPT ![wfile[w]] = scanned_count + 1]
    /\ fstate' = [fstate EXCEPT ![wfile[w]] = "counted"]
    /\ UNCHANGED <<scanning, cancel_scan, spc, calls, ret, files, finfo, worker_threads,
                   wfile, wseen, panicked, person_buckets, events>>
    /\ UNCHANGED <<iptcVars, xmpVars, extractVars, undoVars>>

\* Lines 92-119: the persons go into person_buckets and the event is emitted.
Emit(w) ==
    /\ spc = "workers"
    /\ wfile[w] # 0
    /\ fstate[wfile[w]] = "counted"
    /\ person_buckets' = person_buckets \cup
                         {finfo[wfile[w]].info.persons[k] :
                             k \in 1..Len(finfo[wfile[w]].info.persons)}
    /\ events' = Append(events, FileEvent(finfo[wfile[w]], fcount[wfile[w]], Len(files),
                                          wfile[w]))
    /\ fstate' = [fstate EXCEPT ![wfile[w]] = "emitted"]
    /\ wfile' = [wfile EXCEPT ![w] = 0]
    /\ UNCHANGED <<scanning, cancel_scan, spc, calls, ret, files, finfo, fcount,
                   worker_threads, wseen, panicked, scanned_count>>
    /\ UNCHANGED <<iptcVars, xmpVars, extractVars, undoVars>>

\* pool.install ends: when every closure has ended, or, after a panic, when
\* the closures that run have ended; the files not yet taken are then left
\* and the panic goes on through spawn_blocking: the call returns
\* Err("扫描任务失败: ..") by the ? of line 157, past the reset of line 161.
EndParallel ==
    /\ spc = "workers"
    /\ \A w \in 1..MaxWorkers : wfile[w] = 0
    /\ IF panicked
       THEN /\ fstate' = [i \in DOMAIN fstate |->
                            IF fstate[i] = "todo" THEN "abandoned" ELSE fstate[i]]
            /\ ret' = ErrTask
            /\ spc' = "idle"
       ELSE /\ \A i \in DOMAIN fstate : fstate[i] # "todo"
            /\ spc' = "final"
            /\ UNCHANGED <<fstate, ret>>
    /\ UNCHANGED <<scanning, cancel_scan, calls, files, finfo, fcount, worker_threads,
                   wfile, wseen, panicked, scanned_count, person_buckets, events>>
    /\ UNCHANGED <<iptcVars, xmpVars, extractVars, undoVars>>

\* Lines 124-154: the closing event and the statistics.
Finalize ==
    /\ spc = "final"
    /\ \E flag \in FinalLoad :
          events' = events \o FinalEvents(scanned_count, Len(files), flag)
    /\ ret' = ScanStats(scanned_count, person_buckets)
    /\ spc' = "joined"
    /\ UNCHANGED <<scanning, cancel_scan, calls, files, fstate, finfo, fcount,
                   worker_threads, wfile, wseen, panicked, scanned_count, person_buckets>>
    /\ UNCHANGED <<iptcVars, xmpVars, extractVars, undoVars>>

\* Lines 160-163: scanning is cleared and Ok(result) returned.
ReturnOk ==
    /\ spc = "joined"
    /\ scanning' = FALSE
    /\ spc' = "idle"
    /\ UNCHANGED <<cancel_scan, calls, ret, files, fstate, finfo, fcount, worker_threads,
                   wfile, wseen, panicked, scanned_count, person_buckets, events>>
    /\ UNCHANGED <<iptcVars, xmpVars, extractVars, undoVars>>

\* cancel_scan: state.cancel_scan.store(true, Ordering::Relaxed)
CancelScan ==
    /\ cancel_scan' = TRUE
    /\ UNCHANGED <<scanning, spc, calls, ret, files, fstate, finfo, fcount, worker_threads,
                   wfile, wseen, panicked, scanned_count, person_buckets, events>>
    /\ UNCHANGED <<iptcVars, xmpVars, extractVars, undoVars>>

NextScan ==
    \/ BeginScan
    \/ RejectScan
    \/ ResetCancel
    \/ ListFiles
    \/ BuildPool
    \/ \E w \in 1..MaxWorkers : \E i \in DOMAIN fstate : CheckCancel(w, i)
    \/ \E w \in 1..MaxWorkers : Process(w)
    \/ \E w \in 1..MaxWorkers : Count(w)
    \/ \E w \in 1..MaxWorkers : Emit(w)
    \/ EndParallel
    \/ Finalize
    \/ ReturnOk
    \/ CancelScan

SpecScan == InitScan /\ [][NextScan]_vars

(***************************************************************************)
(* UndoLog: move_images and undo_move on AppState.last_operation           *)
(*                                                                         *)
(* Calls of the two commands run concurrently.  The log of move call m     *)
(* has the id m (a fresh uuid in the source).                              *)
(***************************************************************************)
\* A mutant: the log is read and left in place.
TakenKept(lock) == lock

\* lock.take(): what is left in last_operation.
Taken(lock) == 0

InitUndo ==
    /\ UndoIdle
    /\ ScanIdle
    /\ IptcIdle
    /\ XmpIdle
    /\ ExtractIdle

\* Lines 185-225 of commands.rs: the files are moved in the blocking task;
\* an Err of file_ops::move_images (or a failed task) returns through `??`
\* before anything is saved.
MoveFiles(m) ==
    /\ mpc[m] = "idle"
    /\ \E outcome \in {"moved", "failed"} : mpc' = [mpc EXCEPT ![m] = outcome]
    /\ UNCHANGED <<last_operation, upc, ulog, uret, undone>>
    /\ UNCHANGED <<iptcVars, xmpVars, extractVars, scanVars>>

\* Lines 227-236: the log is saved over whatever was saved, and Ok returned.
SaveLog(m) ==
    /\ mpc[m] = "moved"
    /\ last_operation' = m
    /\ mpc' = [mpc EXCEPT ![m] = "done"]
    /\ UNCHANGED <<upc, ulog, uret, undone>>
    /\ UNCHANGED <<iptcVars, xmpVars, extractVars, scanVars>>

\* Lines 242-248 and 259: the log is taken under the lock; without one the
\* call returns Err("没有可撤销的操作").
TakeLog(u) ==
    /\ upc[u] = "idle"
    /\ ulog' = [ulog EXCEPT ![u] = last_operation]
    /\ last_operation' = Taken(last_operation)
    /\ IF last_operation = 0
       THEN /\ upc' = [upc EXCEPT ![u] = "done"]
            /\ uret' = [uret EXCEPT ![u] = "ErrNone"]
       ELSE /\ upc' = [upc EXCEPT ![u] = "taken"]
            /\ UNCHANGED uret
    /\ UNCHANGED <<mpc, undone>>
    /\ UNCHANGED <<iptcVars, xmpVars, extractVars, scanVars>>

\* Lines 249-258: file_ops::undo_move runs on the log taken; it gives the
\* number of files restored, or an Err when a directory cannot be created.
Restore(u) ==
    /\ upc[u] = "taken"
    /\ undone' = [undone EXCEPT ![ulog[u]] = @ + 1]
    /\ \E outcome \in {"Ok", "ErrUndo"} : uret' = [uret EXCEPT ![u] = outcome]
    /\ upc' = [upc EXCEPT ![u] = "done"]
    /\ UNCHANGED <<last_operation, mpc, ulog>>
    /\ UNCHANGED <<iptcVars, xmpVars, extractVars, scanVars>>

NextUndo ==
    \/ \E m \in 1..MaxMoves : MoveFiles(m)
    \/ \E m \in 1..MaxMoves : SaveLog(m)
    \/ \E u \in 1..MaxUndos : TakeLog(u)
    \/ \E u \in 1..MaxUndos : Restore(u)

SpecUndo == InitUndo /\ [][NextUndo]_vars

(***************************************************************************)
(* Claims on the IPTC decoder                                              *)
(***************************************************************************)
IsPrefix(a, b) == Len(a) <= Len(b) /\ SubSeq(b, 1, Len(a)) = a

\* C2: in parse_iptc_from_photoshop and parse_iptc_records every index read
\* is below the length of the buffer it addresses, whatever the name-length,
\* block-size and field-length fields hold; when a size field points past
\* the end, the scan stops instead of reading (no index panic, and the 8BIM
\* scan is over).
C2_ReadsInBounds ==
    /\ pc # "panic"
    /\ \A i \in reads : i >= 0 /\ i < buflen
    /\ last \in {"brk_name", "brk_size"} => pc = "done"

\* A block size pointing past the end was met and the scan stopped there,
\* having read the header and the size field only.
C2_Witness == last = "brk_size" /\ pc = "done" /\ Cardinality(reads) = 11

\* C5 as stated: once a block or a dataset with a size field past the end of
\* its buffer was met, the decoder returns exactly the keywords decoded
\* before it.
C5_Original == (pc = "done" /\ cut.where # "none") => keywords = cut.kws

\* C5 amended: a truncated block ends the whole scan with the keywords held
\* at that point; a truncated dataset appends nothing and ends the scan of
\* its block only, so the keywords decoded before it are a prefix of the
\* result and the keywords of later blocks may follow.
C5_Amended ==
    /\ [](pc # "panic" /\ IsPrefix(cut.kws, keywords))
    /\ [][/\ last' \in {"brk_name", "brk_size"} => (pc' = "done" /\ keywords' = keywords)
          /\ last' = "ibrk" => (pc' = "outer" /\ keywords' = keywords)
          /\ pc = "done" => keywords' = keywords]_vars

\* A dataset was cut short after a keyword had been decoded, and the scan
\* ended with that keyword and nothing from the truncated dataset.
C5_Witness ==
    /\ pc = "done"
    /\ cut.where = "dataset"
    /\ cut.kws # <<>>
    /\ keywords = cut.kws

\* C6: for a well-formed stream of even-aligned resource blocks after the
\* Photoshop marker, the keywords decoded are exactly the trimmed non-empty
\* payloads of the 2:25 datasets inside the 0x0404 blocks, in stream order.
C6_RoundTrip ==
    /\ pc # "panic"
    /\ (pc = "done" /\ expect.wf) => keywords = expect.kws

\* A stream was decoded to two keywords, the second one from a Latin-1 payload.
C6_Witness ==
    /\ pc = "done"
    /\ expect.wf
    /\ Len(keywords) = 2
    /\ keywords[1] = <<65>>
    /\ keywords[2] = <<233>>

\* C14: both scans end on every buffer: each iteration of the outer loop
\* that goes on leaves pos greater than it was, each iteration of the inner
\* loop that goes on leaves its position greater than it was (also for a
\* block size or a field length of 0 and for a missing signature or
\* marker), and the positions never pass the end of their buffer by more
\* than the alignment byte; so a loop makes at most as many iterations as
\* its buffer has bytes, and one more.
C14_ScansTerminate ==
    /\ [](pos <= Len(data) + 1 /\ ipos <= blk.be - blk.bs)
    /\ [][/\ (pc = "outer" /\ pc' \in {"outer", "inner"}) => pos' > pos
          /\ (pc = "inner" /\ pc' = "inner") => ipos' > ipos
          /\ pc = "inner" => pos' = pos]_vars

\* The scan ended after it had stepped over a block of size 0 and, byte by
\* byte, over bytes that are no signature.
C14_Witness ==
    /\ pc = "done"
    /\ last = "exit"
    /\ blk.bs > 0
    /\ blk.be = blk.bs
    /\ pos > blk.be + 1

(***************************************************************************)
(* Claims on extract_person_tags                                           *)
(***************************************************************************)
Range(v) == {v[i] : i \in 1..Len(v)}

StrictlyAscending(v) == \A i \in 1..(Len(v) - 1) : LexLess(v[i], v[i + 1])

\* C1: for every input, also one with malformed XMP, IPTC or EXIF metadata,
\* extract_person_tags returns a (persons, keywords) pair; no stage panics.
C1_AlwaysReturns == epc # "panicked"

\* C3: in every result, if the XMP rules yielded no person and the keyword
\* list is not empty, persons equals keywords; if they yielded a person,
\* persons holds exactly the XMP-derived persons and no keyword-only value.
C3_FallbackLaw ==
    epc = "done" =>
        /\ (persons = <<>> /\ result.keywords # <<>>) => result.persons = result.keywords
        /\ persons # <<>> => Range(result.persons) = Range(persons)
        /\ (persons = <<>> /\ result.keywords = <<>>) => result.persons = <<>>

\* The XMP rules found persons while the decoders also found keywords that
\* name nobody among them.
C3_Witness ==
    /\ epc = "done"
    /\ persons # <<>>
    /\ Range(result.keywords) \ Range(persons) # {}
    /\ Range(result.persons) = Range(persons)

\* C4: in every result, persons and keywords are in ascending byte-wise
\* order without a repeated value, also after the fallback and when several
\* decoders or several XMP rules produce the same value.
C4_SortedNoDuplicates ==
    epc = "done" =>
        /\ StrictlyAscending(result.persons)
        /\ StrictlyAscending(result.keywords)
        /\ Range(result.keywords) = Range(all_keywords)

\* The same keyword came from more than one decoder, out of order, and the
\* fallback copied the keywords into persons.
C4_Witness ==
    /\ epc = "done"
    /\ persons = <<>>
    /\ Len(all_keywords) > Cardinality(Range(all_keywords))
    /\ ~StrictlyAscending(all_keywords)
    /\ result.persons = result.keywords
    /\ Len(result.keywords) >= 2

\* C9: within one call the three decoders work on one snapshot of the file,
\* also when another process rewrites it meanwhile.
C9_OneSnapshot == epc = "done" => (seen.exif = seen.xmp /\ seen.xmp = seen.iptc)

\* What each decoder gave in the call: the content it read is in seen.
OkKeywords(r) == IF r.tag = "Ok" THEN r.keywords ELSE <<>>

ExifOutput(c) == IF c.readable THEN OkKeywords(ReadExifKeywords(c.exif)) ELSE <<>>

XmpOutput(c) == IF c.readable THEN ReadXmpData(c.text) ELSE TaggedOk(NoResult)

IptcOutput(c) == IF c.readable THEN ReadIptcKeywords(c.irb) ELSE <<>>

\* The orders in which three decoders can run.
Orders == {o \in [1..3 -> 1..3] : \A i, j \in 1..3 : i # j => o[i] # o[j]}

\* The result when the keyword outputs outs are appended in the order o.
MergedIn(o, outs, ps) == Aggregate(ps, outs[o[1]] \o outs[o[2]] \o outs[o[3]])

C12_Merged(outs, ps) ==
    /\ \A o \in Orders : MergedIn(o, outs, ps) = result
    /\ result.keywords = SortedNames(Range(outs[1]) \cup Range(outs[2]) \cup Range(outs[3]))
    /\ Dedup(SortStrings(persons)) = SortedNames(Range(ps))
    /\ result.persons = Fallback(SortedNames(Range(ps)), result.keywords)

\* C12: the merged result is the same for every order in which the three
\* decoders run: keywords is the sorted union without duplicates of the EXIF,
\* XMP subject and IPTC outputs, the merged persons are the sorted XMP person
\* output without duplicates, and the pair returned is that merge after the
\* fallback.
C12_OrderIndependent ==
    epc = "done" =>
        C12_Merged(<<ExifOutput(seen.exif), XmpOutput(seen.xmp).keywords,
                     IptcOutput(seen.iptc)>>,
                   XmpOutput(seen.xmp).persons)

\* All three decoders gave keywords, some of them the same, and they were
\* not appended in ascending order.
C12_Witness ==
    /\ epc = "done"
    /\ ExifOutput(seen.exif) # <<>>
    /\ XmpOutput(seen.xmp).keywords # <<>>
    /\ IptcOutput(seen.iptc) # <<>>
    /\ all_keywords # result.keywords
    /\ Len(result.keywords) >= 3

(***************************************************************************)
(* Claims on the XMP rules                                                 *)
(***************************************************************************)
\* The person each li of the model's documents is to yield, read off its
\* text by hand: "Alice", "Bob", "C", "G", the empty last part of "People|"
\* and of "People/", "Y"; none for the others.
LiExpect ==
    [H1 |-> <<<<65, 108, 105, 99, 101>>>>,
     H2 |-> <<<<66, 111, 98>>>>,
     H3 |-> <<>>,
     H4 |-> <<>>,
     H5 |-> <<<<67>>>>,
     H6 |-> <<>>,
     H7 |-> <<<<71>>>>,
     H8 |-> <<<<>>>>,
     T1 |-> <<<<>>>>,
     T2 |-> <<>>,
     T3 |-> <<<<89>>>>,
     S1 |-> <<>>]

\* The li tokens of a document.
LiToks(t) == {t[i] : i \in 2..(Len(t) - 1)}

\* C11: for every li under a hierarchicalSubject element whose text holds
\* '|', if the split gives two parts or more and the lower-cased first part
\* holds people, person, 人物 or 人, the trimmed last part is in persons; an
\* li without '|' or with another first part adds no person.
C11_HierarchicalPersons ==
    epc \in {"iptc", "done"} =>
        /\ \A tok \in LiToks(disk.text) : Range(LiExpect[tok]) \subseteq Range(persons)
        /\ Range(persons) \subseteq UNION {Range(LiExpect[tok]) : tok \in LiToks(disk.text)}

\* "People|Alice" beside "Places|D": the only person returned is "Alice".
C11_Witness ==
    /\ epc = "done"
    /\ disk.text = <<"XS", "H3", "H1", "XE">>
    /\ result.persons = <<<<65, 108, 105, 99, 101>>>>

\* C13: every string of the returned persons and keywords is not empty and
\* has no white space at either end, also for hierarchicalSubject and
\* TagsList entries whose last part is empty.
C13_NonEmptyTrimmed ==
    epc = "done" =>
        \A s \in Range(result.persons) \cup Range(result.keywords) :
            s # <<>> /\ Trim(s) = s

(***************************************************************************)
(* Claims on the scan                                                      *)
(***************************************************************************)
\* C8: a file that cannot be opened or read is skipped, that is, no event
\* of the scan carries an image for it, and the other files of the batch are
\* still processed: when the parallel loop has ended without a cancel, every
\* readable file has had its event.
C8_UnreadableSkipped ==
    /\ \A k \in 1..Len(events) :
          (events[k].file # 0 /\ ~files[events[k].file].readable) => ~events[k].image.some
    /\ (spc = "final" /\ ~cancel_scan) =>
          \A i \in DOMAIN files : files[i].readable => fstate[i] = "emitted"

\* C10: cancellation acts between files only: a worker that has loaded the
\* flag as set holds no file, and once the parallel loop has ended every
\* file whose extraction was started has its scan-progress event.
C10_CancelBetweenFiles ==
    /\ \A w \in DOMAIN wseen : wseen[w] => wfile[w] = 0
    /\ spc # "workers" =>
          \A i \in DOMAIN fstate :
              fstate[i] \notin {"todo", "skipped", "abandoned"} =>
                  \E k \in 1..Len(events) : events[k].file = i

\* C15: whenever a call of scan_images that set the scanning flag has
\* returned, with Ok or with Err, the flag is false again (so that a later
\* call is not rejected): with no call in flight the flag is clear.
C15_ScanningCleared == spc = "idle" => ~scanning

\* C16: a scan that completes, normally or by cancellation, emits exactly
\* one scan-progress event with done = true, and none of its events comes
\* after that one: no event but the last is a done event, and when the scan
\* has completed its last event is one.
C16_OneDoneEvent ==
    /\ \A k \in 1..(Len(events) - 1) : ~events[k].done
    /\ spc = "joined" => (events # <<>> /\ events[Len(events)].done)

(***************************************************************************)
(* Claims on the undo log                                                  *)
(***************************************************************************)
\* C17: a log is undone at most once: undo_move takes the saved log out of
\* the shared state under the lock before it restores files, so of repeated
\* or concurrent undo_move calls one at most holds a given log, a call that
\* finds no log returns the "no operation to undo" error, and a log is
\* there again only when a move_images call has succeeded and saved its own.
C17_UndoAtMostOnce ==
    /\ [](\A l \in 1..MaxMoves :
            /\ undone[l] <= 1
            /\ Cardinality({u \in 1..MaxUndos : ulog[u] = l}) <= 1
            /\ (\E u \in 1..MaxUndos : ulog[u] = l) => last_operation # l)
    /\ [][\A u \in 1..MaxUndos :
            (upc[u] = "idle" /\ upc'[u] # "idle") =>
                IF last_operation = 0
                THEN upc'[u] = "done" /\ uret'[u] = "ErrNone" /\ undone' = undone
                ELSE ulog'[u] = last_operation /\ last_operation' = 0]_vars
    /\ [][(last_operation' # last_operation /\ last_operation' # 0) =>
            \E m \in 1..MaxMoves :
                mpc[m] = "moved" /\ mpc'[m] = "done" /\ last_operation' = m]_vars

\* The first log was undone by one call, another call found nothing to undo,
\* and after a second move had saved its log a third call undid that one.
C17_Witness ==
    /\ undone[1] = 1
    /\ undone[2] = 1
    /\ \E u \in 1..MaxUndos : uret[u] = "ErrNone"
    /\ \A u \in 1..MaxUndos : upc[u] = "done"

=============================================================================
